---- MODULE Spec2Model ----
(***************************************************************************)
(* State-machine model of the wrist device's persistence layer             *)
(* (src/data_store.py, class DataStore) and of the file it writes.         *)
(*                                                                         *)
(* data  : DataStore._data, the in-memory document                         *)
(* disk  : the file at DataStore.filepath                                  *)
(* pc    : "idle" between calls, "writing" while save() is between its     *)
(*         open(filepath,'w') and the end of json.dump                     *)
(* op, key, ret : the call in progress or last finished, its name          *)
(*         argument, and how it ended ("none" = returned None, "true",     *)
(*         "false", "raised" = an exception left the call, "pending")      *)
(* now   : the logical clock read by datetime.now(); one tick per call     *)
(* val   : the number the last get_stat call returned, -1 otherwise        *)
(*                                                                         *)
(* and of the screens of src/wrist_device.py (class WristDeviceApp):       *)
(*                                                                         *)
(* stack : the screens pushed on the application's screen stack, the       *)
(*         visible one last                                                *)
(* view  : what each of the four named screens, the pushed screen on top   *)
(*         and the dashboard's clock currently display                     *)
(* ran   : the hooks the last step of the interface ran, in order          *)
(* hpc   : the event handler that is waiting for its store call to return, *)
(*         "none" between events, "crashed" once an exception left a       *)
(*         handler or a compose                                            *)
(***************************************************************************)
EXTENDS Integers, Sequences, FiniteSets, TLC

VARIABLES data, disk, pc, op, key, ret, now, val, stack, view, ran, hpc

vars == <<data, disk, pc, op, key, ret, now, val, stack, view, ran, hpc>>

\* the state of the interface
ui == <<stack, view, ran, hpc>>

(* ----------------------------- bounds --------------------------------- *)

\* number of calls (clock ticks) explored
MaxTime == 4

\* magnitude of the out-of-range stat values and deltas tried
BigVal == 500

(* --------------------------- input sets -------------------------------- *)

\* "energy" is a seeded stat, "mood" is a name unknown to the defaults
StatNames == {"energy", "mood"}

\* out of range on both sides, just outside the range, and mid-range
StatValues == {-BigVal, -1, 50, 101, BigVal}

StatDeltas == {-BigVal, -50, 50, BigVal}

\* names passed to add_item
AddNames == {"phone", "Map"}

\* names passed as original_name and as name of update_item; "phone"
\* differs from the seeded "Phone" only in case
OrigNames == {"Phone", "Wallet", "phone"}

NewNames == {"Phone", "Purse"}

\* names passed to remove_item
RemoveNames == {"Phone", "phone", "Map"}

SettingKeys == {"auto_save", "compact_mode"}

(* ------------------------- the default document ------------------------ *)

Item(name, category, quantity, weight) ==
    [name |-> name, category |-> category, quantity |-> quantity, weight |-> weight]

\* weights are in grams (0.2 kg = 200)
DefaultStats ==
    [hydration |-> 75, energy |-> 80, urination |-> 30, stress |-> 25]

DefaultInventory ==
    << Item("Phone", "Electronics", 1, 200),
       Item("Wallet", "Essentials", 1, 100),
       Item("Keys", "Essentials", 1, 50) >>

DefaultSettings ==
    [device_name |-> "WristComp v1.0", auto_save |-> TRUE, compact_mode |-> FALSE]

default_data(t) ==
    [stats |-> DefaultStats, inventory |-> DefaultInventory,
     settings |-> DefaultSettings, last_updated |-> t]

\* the fields an add or an edit supplies: category, quantity, weight
NewFields == [category |-> "Gear", quantity |-> 2, weight |-> 300]

(* ------------------------------ the file ------------------------------- *)

\* json.dump writes the top-level keys in this order; the closing brace
\* comes with the last one, so only a file holding all of them parses
DocKeys == <<"stats", "inventory", "settings", "last_updated">>

NChunks == Len(DocKeys)

\* the file after the first n chunks of doc have been written
FilePrefix(doc, n) ==
    [exists |-> TRUE, utf8 |-> TRUE, written |-> n,
     stats |-> IF n >= 1 THEN doc.stats ELSE <<>>,
     inventory |-> IF n >= 2 THEN doc.inventory ELSE <<>>,
     settings |-> IF n >= 3 THEN doc.settings ELSE <<>>,
     last_updated |-> IF n >= 4 THEN doc.last_updated ELSE -1]

NoFile ==
    [exists |-> FALSE, utf8 |-> TRUE, written |-> 0, stats |-> <<>>,
     inventory |-> <<>>, settings |-> <<>>, last_updated |-> -1]

\* a file whose bytes are not valid UTF-8 text (json.dump never writes one)
GarbageFile ==
    [exists |-> TRUE, utf8 |-> FALSE, written |-> 0, stats |-> <<>>,
     inventory |-> <<>>, settings |-> <<>>, last_updated |-> -1]

\* json.load succeeds only on a complete document
Parses(file) == file.written = NChunks

json_load(file) ==
    [stats |-> file.stats, inventory |-> file.inventory,
     settings |-> file.settings, last_updated |-> file.last_updated]

load(file, t) ==
    IF file.exists /\ Parses(file) THEN json_load(file) ELSE default_data(t)

\* json.load reads the file as text first: bytes that do not decode raise
\* UnicodeDecodeError, which is neither JSONDecodeError nor IOError and so
\* leaves _load and the constructor
LoadRaises(file) == file.exists /\ ~file.utf8

\* no DataStore object: its constructor raised
NoStore ==
    [stats |-> <<>>, inventory |-> <<>>, settings |-> <<>>, last_updated |-> -1]

(* ------------------------------ helpers -------------------------------- *)

\* max(0, min(100, value))
Min(a, b) == IF a < b THEN a ELSE b

Max(a, b) == IF a > b THEN a ELSE b

\* a clamp that forgets the lower bound
Clamp_NoFloor(value) == Min(100, value)

Clamp(value) == Max(0, Min(100, value))

\* self.stats.get(name, 0)
get_stat(d, name) ==
    IF name \in DOMAIN d.stats THEN d.stats[name] ELSE 0

\* self._data["settings"].get("auto_save", True)
AutoSave(d) ==
    IF "auto_save" \in DOMAIN d.settings THEN d.settings["auto_save"] ELSE TRUE

\* str.lower() on the names the model uses
Lower(s) ==
    CASE s = "Phone" -> "phone"
      [] s = "Wallet" -> "wallet"
      [] s = "Keys" -> "keys"
      [] s = "Map" -> "map"
      [] s = "Purse" -> "purse"
      [] OTHER -> s

\* index of the first entry whose name matches case-insensitively, 0 if none
FirstNoCase(inv, name) ==
    IF \E i \in 1..Len(inv) : Lower(inv[i].name) = Lower(name)
    THEN CHOOSE i \in 1..Len(inv) :
            /\ Lower(inv[i].name) = Lower(name)
            /\ \A j \in 1..(i-1) : Lower(inv[j].name) # Lower(name)
    ELSE 0

\* an exact lookup that ignores case
FirstExact_NoCase(inv, name) == FirstNoCase(inv, name)

\* index of the first entry with exactly this name, 0 if none
FirstExact(inv, name) ==
    IF \E i \in 1..Len(inv) : inv[i].name = name
    THEN CHOOSE i \in 1..Len(inv) :
            /\ inv[i].name = name
            /\ \A j \in 1..(i-1) : inv[j].name # name
    ELSE 0

\* list.remove(x): drops the first element equal to x
ListRemove(inv, x) ==
    LET i == CHOOSE k \in 1..Len(inv) :
                 inv[k] = x /\ \A j \in 1..(k-1) : inv[j] # x
    IN  [k \in 1..(Len(inv)-1) |-> IF k < i THEN inv[k] ELSE inv[k+1]]

get_item(d, name) ==
    LET i == FirstExact(d.inventory, name)
    IN  IF i = 0 THEN <<>> ELSE <<d.inventory[i]>>

\* what a call returns once its save has finished
ReturnOf(o) == IF o \in {"update_item", "remove_item"} THEN "true" ELSE "none"

(* ------------------------------- save ---------------------------------- *)

\* save(): stamp the document, open the file for writing (which empties
\* it) and start json.dump; the open itself may fail and raise
SaveBegin(d) ==
    /\ data' = [d EXCEPT !.last_updated = now + 1]
    /\ \/ /\ disk' = FilePrefix(d, 0)
          /\ pc' = "writing"
          /\ ret' = "pending"
       \/ /\ disk' = disk
          /\ pc' = "idle"
          /\ ret' = "raised"

\* the call ends without touching the file
NoSave(d, r) ==
    /\ data' = d
    /\ disk' = disk
    /\ pc' = "idle"
    /\ ret' = r

\* a commit that saves whatever auto_save says
Commit_Always(d, r) == SaveBegin(d)

\* if self._data["settings"].get("auto_save", True): self.save()
Commit(d, r) ==
    IF AutoSave(d) THEN SaveBegin(d) ELSE NoSave(d, r)

Call(o, k) ==
    /\ pc = "idle"
    /\ now < MaxTime
    /\ now' = now + 1
    /\ op' = o
    /\ key' = k

\* a dump that returns before the last top-level key is written
WriteChunk_Short ==
    /\ pc = "writing"
    /\ disk' = FilePrefix(data, disk.written + 1)
    /\ IF disk.written + 1 >= NChunks - 1
       THEN pc' = "idle" /\ ret' = ReturnOf(op)
       ELSE pc' = "writing" /\ ret' = ret
    /\ UNCHANGED <<data, op, key, now>>

\* json.dump writes the next chunk; after the last one the file is closed
\* and the call returns
WriteChunk ==
    /\ pc = "writing"
    /\ disk' = FilePrefix(data, disk.written + 1)
    /\ IF disk.written + 1 = NChunks
       THEN pc' = "idle" /\ ret' = ReturnOf(op)
       ELSE pc' = "writing" /\ ret' = ret
    /\ UNCHANGED <<data, op, key, now>>

\* a write raises IOError: the exception leaves save() and its caller
WriteFail ==
    /\ pc = "writing"
    /\ pc' = "idle"
    /\ ret' = "raised"
    /\ UNCHANGED <<data, disk, op, key, now>>

save ==
    /\ Call("save", "")
    /\ SaveBegin(data)

(* --------------------------- the operations ---------------------------- *)

set_stat(name, value) ==
    /\ Call("set_stat", name)
    /\ Commit([data EXCEPT !.stats =
                 [n \in DOMAIN data.stats \cup {name} |->
                    IF n = name THEN Clamp(value) ELSE data.stats[n]]], "none")

\* an update_stat that stores the sum without going through set_stat
update_stat_NoClamp(name, delta) ==
    /\ Call("update_stat", name)
    /\ LET current == get_stat(data, name)
       IN  Commit([data EXCEPT !.stats =
                     [n \in DOMAIN data.stats \cup {name} |->
                        IF n = name THEN current + delta
                        ELSE data.stats[n]]], "none")

update_stat(name, delta) ==
    /\ Call("update_stat", name)
    /\ LET current == get_stat(data, name)
       IN  Commit([data EXCEPT !.stats =
                     [n \in DOMAIN data.stats \cup {name} |->
                        IF n = name THEN Clamp(current + delta)
                        ELSE data.stats[n]]], "none")

\* an add_item that looks for the name with exact case only
AddItemData_Exact(d, name, f) ==
    LET i == FirstExact(d.inventory, name)
    IN  IF i # 0
        THEN [d EXCEPT !.inventory[i].category = f.category,
                       !.inventory[i].quantity = f.quantity,
                       !.inventory[i].weight = f.weight]
        ELSE [d EXCEPT !.inventory =
                 Append(@, Item(name, f.category, f.quantity, f.weight))]

\* the loop of add_item: the first entry matching case-insensitively is
\* overwritten in place, otherwise a new entry is appended
AddItemData(d, name, f) ==
    LET i == FirstNoCase(d.inventory, name)
    IN  IF i # 0
        THEN [d EXCEPT !.inventory[i].category = f.category,
                       !.inventory[i].quantity = f.quantity,
                       !.inventory[i].weight = f.weight]
        ELSE [d EXCEPT !.inventory =
                 Append(@, Item(name, f.category, f.quantity, f.weight))]

add_item(name, f) ==
    /\ Call("add_item", name)
    /\ Commit(AddItemData(data, name, f), "none")

\* an update_item that rewrites every entry with this name
UpdateItemData_All(d, original_name, name, f) ==
    [d EXCEPT !.inventory =
        [k \in 1..Len(d.inventory) |->
           IF d.inventory[k].name = original_name
           THEN Item(name, f.category, f.quantity, f.weight)
           ELSE d.inventory[k]]]

\* the loop of update_item: the first entry with exactly this name
UpdateItemData(d, original_name, name, f) ==
    LET i == FirstExact(d.inventory, original_name)
    IN  [d EXCEPT !.inventory[i] =
            Item(name, f.category, f.quantity, f.weight)]

update_item(original_name, name, f) ==
    /\ Call("update_item", original_name)
    /\ IF FirstExact(data.inventory, original_name) # 0
       THEN Commit(UpdateItemData(data, original_name, name, f), "true")
       ELSE NoSave(data, "false")

RemoveItemData(d, name) ==
    LET i == FirstExact(d.inventory, name)
    IN  [d EXCEPT !.inventory = ListRemove(@, d.inventory[i])]

remove_item(name) ==
    /\ Call("remove_item", name)
    /\ IF FirstExact(data.inventory, name) # 0
       THEN Commit(RemoveItemData(data, name), "true")
       ELSE NoSave(data, "false")

\* the assignment comes first: the auto_save test reads the new settings
SetSettingData(d, k, value) ==
    [d EXCEPT !.settings =
        [s \in DOMAIN d.settings \cup {k} |->
            IF s = k THEN value ELSE d.settings[s]]]

set_setting(k, value) ==
    /\ Call("set_setting", k)
    /\ Commit(SetSettingData(data, k, value), "none")

\* a reset_stats that saves only under auto_save
reset_stats_IfAutoSave ==
    /\ Call("reset_stats", "")
    /\ Commit([data EXCEPT !.stats = DefaultStats], "none")

reset_stats ==
    /\ Call("reset_stats", "")
    /\ SaveBegin([data EXCEPT !.stats = DefaultStats])

\* a reset_all that keeps the settings it finds
reset_all_KeepSettings ==
    /\ Call("reset_all", "")
    /\ SaveBegin([default_data(now + 1) EXCEPT !.settings = data.settings])

reset_all ==
    /\ Call("reset_all", "")
    /\ SaveBegin(default_data(now + 1))

\* the process stops (at any point, also inside a save) and is started
\* again: DataStore.__init__ reads the file
Restart ==
    /\ now < MaxTime
    /\ now' = now + 1
    /\ op' = "load"
    /\ key' = ""
    /\ disk' = disk
    /\ IF LoadRaises(disk)
       THEN data' = NoStore /\ pc' = "down" /\ ret' = "raised"
       ELSE data' = load(disk, now + 1) /\ pc' = "idle" /\ ret' = "none"

\* a get_stat that creates the key it does not find
get_stat_call_SetDefault(name) ==
    /\ Call("get_stat", name)
    /\ val' = get_stat(data, name)
    /\ NoSave([data EXCEPT !.stats =
                 [n \in DOMAIN data.stats \cup {name} |-> get_stat(data, n)]],
              "value")

\* a call of get_stat(name): a read, the number it returns goes to val
get_stat_call(name) ==
    /\ Call("get_stat", name)
    /\ val' = get_stat(data, name)
    /\ NoSave(data, "value")

(* -------------------------- the specification -------------------------- *)

\* DataStore() with no file at filepath
(* ------------------------------ the interface ------------------------- *)
(* src/wrist_device.py.  The stack is modelled above the base screen the   *)
(* framework keeps under every application.                                *)

TopLevel == {"dashboard", "stats", "inventory", "settings"}

\* WristDeviceApp.SCREENS
SCREENS == TopLevel

\* what an entry of the stack is: the screen and the item name it was
\* constructed with ("" for none)
Entry(id, item) == [id |-> id, item |-> item]

\* the fields of an item that ItemDetailScreen and ItemEditorModal show
Shown(item) ==
    [name |-> item.name, category |-> item.category,
     quantity |-> item.quantity, weight |-> item.weight]

\* the placeholders ItemDetailScreen shows for an item it does not find
Placeholder == [name |-> "-", category |-> "-", quantity |-> "-", weight |-> "-"]

\* the empty form ItemEditorModal shows for a new item
EmptyForm == [name |-> "", category |-> "", quantity |-> 1, weight |-> 0]

\* the four stats the dashboard and the stats screen show
ShownStats == {"hydration", "energy", "urination", "stress"}

\* what each named screen draws from a document d
DashboardView(d) ==
    [stats |-> [n \in ShownStats |-> get_stat(d, n)],
     items |-> [i \in 1..Min(3, Len(d.inventory)) |->
                  [name |-> d.inventory[i].name,
                   quantity |-> d.inventory[i].quantity]]]

StatsView(d) == [n \in ShownStats |-> get_stat(d, n)]

InventoryView(d) ==
    [i \in 1..Len(d.inventory) |->
       [name |-> d.inventory[i].name, category |-> d.inventory[i].category,
        quantity |-> d.inventory[i].quantity]]

SettingsView(d) ==
    [device_name |-> d.settings.device_name, auto_save |-> d.settings.auto_save]

ViewOf(id, d) ==
    CASE id = "dashboard" -> DashboardView(d)
      [] id = "stats" -> StatsView(d)
      [] id = "inventory" -> InventoryView(d)
      [] id = "settings" -> SettingsView(d)

\* a named screen that was never shown has composed nothing
Blank == [mounted |-> FALSE, shows |-> <<>>]
Drawn(id, d) == [mounted |-> TRUE, shows |-> ViewOf(id, d)]

\* the dashboard's clock; of the time it shows the model keeps whether the
\* second is even (0) or odd (1)
ClockFace(second) == [mounted |-> TRUE, shows |-> second]

\* one entry of ran: what ran, and the screen or the input it ran with
Ev(what, id) == [what |-> what, id |-> id]

\* the interface right after on_mount pushed the dashboard
UIStart(d) ==
    /\ stack = <<Entry("dashboard", "")>>
    /\ view = [id \in TopLevel \cup {"top", "clock"} |->
                 IF id = "dashboard" THEN Drawn(id, d)
                 ELSE IF id = "clock" THEN ClockFace(0)
                 ELSE Blank]
    /\ ran = <<Ev("push_screen", "dashboard"), Ev("compose", "dashboard"),
               Ev("ScreenResume", "dashboard"),
               Ev("on_screen_resume", "dashboard")>>
    /\ hpc = "none"

\* no application: the store is used on its own
UIOff ==
    /\ stack = <<>>
    /\ view = <<>>
    /\ ran = <<>>
    /\ hpc = "none"

\* a step of the store alone: the interface stands still
Quiet == val' = -1 /\ UNCHANGED ui

(* ----------------------------- the store alone ------------------------- *)

Init ==
    /\ now = 0
    /\ disk = NoFile
    /\ data = load(disk, 0)
    /\ pc = "idle"
    /\ op = "load"
    /\ key = ""
    /\ ret = "none"
    /\ val = -1
    /\ UIOff

Next ==
    \/ \E name \in StatNames, value \in StatValues :
          set_stat(name, value) /\ Quiet
    \/ \E name \in StatNames, delta \in StatDeltas :
          update_stat(name, delta) /\ Quiet
    \/ \E name \in StatNames : get_stat_call(name) /\ UNCHANGED ui
    \/ \E name \in AddNames : add_item(name, NewFields) /\ Quiet
    \/ \E o \in OrigNames, name \in NewNames :
          update_item(o, name, NewFields) /\ Quiet
    \/ \E name \in RemoveNames : remove_item(name) /\ Quiet
    \/ \E k \in SettingKeys, value \in BOOLEAN : set_setting(k, value) /\ Quiet
    \/ reset_stats /\ Quiet
    \/ reset_all /\ Quiet
    \/ save /\ Quiet
    \/ WriteChunk /\ Quiet
    \/ WriteFail /\ Quiet
    \/ Restart /\ Quiet

Spec == Init /\ [][Next]_vars

(* --------------------- the store without its inventory ---------------- *)

\* the calls that read or write the stats, with the settings and the file
NextStats ==
    \/ \E name \in StatNames, value \in StatValues :
          set_stat(name, value) /\ Quiet
    \/ \E name \in StatNames, delta \in StatDeltas :
          update_stat(name, delta) /\ Quiet
    \/ \E name \in StatNames : get_stat_call(name) /\ UNCHANGED ui
    \/ \E k \in SettingKeys, value \in BOOLEAN : set_setting(k, value) /\ Quiet
    \/ reset_stats /\ Quiet
    \/ save /\ Quiet
    \/ WriteChunk /\ Quiet
    \/ WriteFail /\ Quiet
    \/ Restart /\ Quiet

SpecStats == Init /\ [][NextStats]_vars

(* ----------------------- the store without its stats ------------------ *)

\* names passed as the new name of update_item; "phone" differs from the
\* seeded "Phone" only in case
RenameNames == NewNames \cup {"phone"}

\* the calls that read or write the inventory, with the settings and the
\* file
NextItems ==
    \/ \E name \in AddNames : add_item(name, NewFields) /\ Quiet
    \/ \E o \in OrigNames, name \in RenameNames :
          update_item(o, name, NewFields) /\ Quiet
    \/ \E name \in RemoveNames : remove_item(name) /\ Quiet
    \/ \E k \in SettingKeys, value \in BOOLEAN : set_setting(k, value) /\ Quiet
    \/ save /\ Quiet
    \/ WriteChunk /\ Quiet
    \/ WriteFail /\ Quiet
    \/ Restart /\ Quiet

SpecItems == Init /\ [][NextItems]_vars

(* ------------------- the store started on a given file ----------------- *)

\* a document an earlier session saved
SavedDoc ==
    [stats |-> [DefaultStats EXCEPT !["energy"] = 50],
     inventory |-> <<Item("Map", "Gear", 2, 300)>>,
     settings |-> [DefaultSettings EXCEPT !.auto_save = FALSE],
     last_updated |-> 0]

\* a well-formed document whose "energy" is out of range: the store never
\* writes one, a file edited or produced by another program can hold it
EditedDoc ==
    [stats |-> [DefaultStats EXCEPT !["energy"] = BigVal],
     inventory |-> DefaultInventory,
     settings |-> DefaultSettings,
     last_updated |-> 0]

\* the files a session may find: none, bytes that are no text, an empty
\* file, a document cut short, a whole document, an edited document
StartFiles ==
    {NoFile, GarbageFile, FilePrefix(SavedDoc, 0), FilePrefix(SavedDoc, 2),
     FilePrefix(SavedDoc, NChunks), FilePrefix(EditedDoc, NChunks)}

InitFiles ==
    /\ now = 0
    /\ disk \in StartFiles
    /\ op = "load"
    /\ key = ""
    /\ val = -1
    /\ IF LoadRaises(disk)
       THEN data = NoStore /\ pc = "down" /\ ret = "raised"
       ELSE data = load(disk, 0) /\ pc = "idle" /\ ret = "none"
    /\ UIOff

NextFiles ==
    \/ \E name \in StatNames, value \in StatValues :
          set_stat(name, value) /\ Quiet
    \/ \E name \in StatNames : get_stat_call(name) /\ UNCHANGED ui
    \/ reset_stats /\ Quiet
    \/ save /\ Quiet
    \/ WriteChunk /\ Quiet
    \/ WriteFail /\ Quiet
    \/ Restart /\ Quiet

SpecFiles == InitFiles /\ [][NextFiles]_vars

(* ------------------------- the application ---------------------------- *)

\* pushes beyond this depth of the stack are not explored
MaxDepth == 3

\* presses of a button that calls the store explored in one session
MaxPresses == 2

\* the stat whose + and - buttons are pressed, of the four the screen has
ButtonStats == {"energy"}

\* the texts typed into the editor's name field
NameTexts == {"", "  ", " Map "}

\* ids passed to action_switch_screen; "help" names no screen
SwitchIds == TopLevel \cup {"help"}

\* a strip that leaves the text as typed
Strip_Identity(text) == text

\* str.strip() on the texts the model uses
Strip(text) ==
    CASE text = "  " -> ""
      [] text = " Map " -> "Map"
      [] OTHER -> text

Top == stack[Len(stack)]

Front(s) == SubSeq(s, 1, Len(s) - 1)

\* the named screens that define on_screen_resume; SettingsScreen does not
HasResumeHook(id) == id \in {"dashboard", "stats", "inventory"}

\* the user can act: no handler is running and the app has not stopped
UIEvent == pc = "idle" /\ hpc = "none" /\ Len(stack) > 0

\* a button that calls the store can still be pressed
MayPress == now < MaxPresses

\* the interface does not call the store in this step
StoreIdle == UNCHANGED <<data, disk, pc, op, key, ret, now, val>>

\* ScreenResume reaches the named screen id: it is composed when shown for
\* the first time, and its on_screen_resume, when it has one, redraws it
ResumedView(v, id, d) ==
    IF ~v[id].mounted \/ HasResumeHook(id)
    THEN [v EXCEPT ![id] = Drawn(id, d)]
    ELSE v

ResumeEvents(v, id) ==
    (IF v[id].mounted THEN <<>> ELSE <<Ev("compose", id)>>)
    \o <<Ev("ScreenResume", id)>>
    \o (IF HasResumeHook(id) THEN <<Ev("on_screen_resume", id)>> ELSE <<>>)

\* the framework's switch_screen: nothing when the target is the visible
\* screen, else the top of the stack is replaced by the target
switch_screen(id) ==
    IF Top.id = id
    THEN /\ UNCHANGED <<stack, view>>
         /\ ran' = <<Ev("action_switch_screen", id)>>
    ELSE /\ stack' = Append(Front(stack), Entry(id, ""))
         /\ view' = [ResumedView(view, id, data) EXCEPT !["top"] = Blank]
         /\ ran' = <<Ev("action_switch_screen", id)>> \o ResumeEvents(view, id)

\* a switch that hands every id to the framework, which stacks the screen
action_switch_screen_Push(id) ==
    /\ UIEvent
    /\ Top.id \in TopLevel \cup {"detail"}
    /\ StoreIdle
    /\ hpc' = hpc
    /\ stack' = Append(stack, Entry(id, ""))
    /\ view' = view
    /\ ran' = <<Ev("action_switch_screen", id), Ev("ScreenResume", id)>>

\* the four named screens and the detail screen bind keys to this action
action_switch_screen(id) ==
    /\ UIEvent
    /\ Top.id \in TopLevel \cup {"detail"}
    /\ StoreIdle
    /\ hpc' = hpc
    /\ IF id \in SCREENS
       THEN switch_screen(id)
       ELSE /\ UNCHANGED <<stack, view>>
            /\ ran' = <<Ev("action_switch_screen", id)>>

\* ItemEditorModal.compose calls .get on what get_item returned: None, for
\* an item name that is given and not found, has no .get
ComposeRaises(id, item, d) ==
    id = "editor" /\ item # "" /\ get_item(d, item) = <<>>

\* what a pushed screen composes
Composed(id, item, d) ==
    CASE id = "detail" ->
           IF get_item(d, item) = <<>> THEN Placeholder
           ELSE Shown(get_item(d, item)[1])
      [] id = "editor" ->
           IF item = "" THEN EmptyForm ELSE Shown(get_item(d, item)[1])
      [] id = "delete" -> [name |-> item]

\* push_screen of a new screen built with item: it goes on top and
\* composes; an exception in compose stops the app
push_screen(id, item) ==
    /\ Len(stack) < MaxDepth
    /\ stack' = Append(stack, Entry(id, item))
    /\ IF ComposeRaises(id, item, data)
       THEN /\ view' = view
            /\ hpc' = "crashed"
            /\ ran' = <<Ev("push_screen", id)>>
       ELSE /\ view' = [view EXCEPT !["top"] =
                          [mounted |-> TRUE, shows |-> Composed(id, item, data)]]
            /\ hpc' = hpc
            /\ ran' = <<Ev("push_screen", id), Ev("compose", id),
                        Ev("ScreenResume", id)>>

\* _selected_item_name: the name at the list's index in the store's
\* inventory, for any index the list can have
Selected == {data.inventory[i].name : i \in 1..Len(data.inventory)}

action_view_item ==
    /\ UIEvent
    /\ Top.id = "inventory"
    /\ StoreIdle
    /\ \E name \in Selected : push_screen("detail", name)

action_add_item ==
    /\ UIEvent
    /\ Top.id = "inventory"
    /\ StoreIdle
    /\ push_screen("editor", "")

action_edit_item ==
    /\ UIEvent
    /\ Top.id = "inventory"
    /\ StoreIdle
    /\ \E name \in Selected : push_screen("editor", name)

action_delete_item ==
    /\ UIEvent
    /\ Top.id = "inventory"
    /\ StoreIdle
    /\ \E name \in Selected : push_screen("delete", name)

\* a dismiss that delivers no ScreenResume to the screen it reveals
pop_screen_NoResume(first) ==
    /\ Len(stack) >= 2
    /\ stack' = Front(stack)
    /\ view' = [view EXCEPT !["top"] = Blank]
    /\ ran' = first

\* dismiss(): the top screen leaves the stack and ScreenResume reaches the
\* screen under it; first holds what the handler ran before
pop_screen(first) ==
    /\ Len(stack) >= 2
    /\ stack' = Front(stack)
    /\ view' = [ResumedView(view, stack[Len(stack) - 1].id, data)
                  EXCEPT !["top"] = Blank]
    /\ ran' = first \o ResumeEvents(view, stack[Len(stack) - 1].id)

\* Escape or the Cancel button of the editor or of the delete dialog
action_dismiss ==
    /\ UIEvent
    /\ Top.id \in {"editor", "delete"}
    /\ StoreIdle
    /\ hpc' = hpc
    /\ pop_screen(<<Ev("dismiss", Top.id)>>)

\* the Save button of the editor with text in the name field, up to the
\* return of the store call; the other fields hold NewFields
save_item(text) ==
    /\ UIEvent
    /\ Top.id = "editor"
    /\ ran' = <<Ev("_save_item", text)>>
    /\ UNCHANGED <<stack, view>>
    /\ IF Strip(text) = ""
       THEN StoreIdle /\ hpc' = hpc
       ELSE /\ MayPress
            /\ IF Top.item # ""
               THEN update_item(Top.item, Strip(text), NewFields)
               ELSE add_item(Strip(text), NewFields)
            /\ val' = val
            /\ hpc' = "_save_item"

\* the Delete button of the delete dialog, up to the return of the store
delete_confirm ==
    /\ UIEvent
    /\ Top.id = "delete"
    /\ MayPress
    /\ remove_item(Top.item)
    /\ val' = val
    /\ hpc' = "delete"
    /\ ran' = <<Ev("on_button_pressed", "delete")>>
    /\ UNCHANGED <<stack, view>>

\* a + or - button of the stats screen, up to the return of the store
stats_button(name, delta) ==
    /\ UIEvent
    /\ Top.id = "stats"
    /\ MayPress
    /\ update_stat(name, delta)
    /\ val' = val
    /\ hpc' = "stats_button"
    /\ ran' = <<Ev("on_button_pressed", "stats")>>
    /\ UNCHANGED <<stack, view>>

\* Reset Stats and Reset All of the settings screen
settings_reset_stats ==
    /\ UIEvent
    /\ Top.id = "settings"
    /\ MayPress
    /\ reset_stats
    /\ val' = val
    /\ hpc' = "settings_button"
    /\ ran' = <<Ev("on_button_pressed", "settings")>>
    /\ UNCHANGED <<stack, view>>

settings_reset_all ==
    /\ UIEvent
    /\ Top.id = "settings"
    /\ MayPress
    /\ reset_all
    /\ val' = val
    /\ hpc' = "settings_button"
    /\ ran' = <<Ev("on_button_pressed", "settings")>>
    /\ UNCHANGED <<stack, view>>

\* the store call of a handler has returned: an exception leaves the
\* handler and stops the app, else the handler runs its remaining lines
handler_return ==
    /\ pc = "idle"
    /\ hpc \in {"_save_item", "delete", "stats_button", "settings_button"}
    /\ StoreIdle
    /\ IF ret = "raised"
       THEN /\ hpc' = "crashed"
            /\ ran' = <<>>
            /\ UNCHANGED <<stack, view>>
       ELSE /\ hpc' = "none"
            /\ CASE hpc \in {"_save_item", "delete"} ->
                     /\ Len(stack) >= 2
                     /\ stack' = Front(stack)
                     /\ view' = [ResumedView(view, stack[Len(stack) - 1].id, data)
                                   EXCEPT !["top"] = Blank,
                                          !["inventory"] = Drawn("inventory", data)]
                     /\ ran' = <<Ev("dismiss", Top.id),
                                 Ev("refresh_inventory", "inventory")>>
                               \o ResumeEvents(view, stack[Len(stack) - 1].id)
                 [] hpc = "stats_button" ->
                     /\ stack' = stack
                     /\ view' = [view EXCEPT !["stats"] = Drawn("stats", data)]
                     /\ ran' = <<Ev("_update_display", "stats")>>
                 [] hpc = "settings_button" ->
                     /\ UNCHANGED <<stack, view>>
                     /\ ran' = <<Ev("notify", "settings")>>

\* a dashboard refresh that also saves the document
refresh_stats_Saving ==
    /\ UIEvent
    /\ view["dashboard"].mounted
    /\ save
    /\ val' = val
    /\ UNCHANGED <<stack, hpc>>
    /\ view' = [view EXCEPT !["dashboard"] = Drawn("dashboard", data)]
    /\ ran' = <<Ev("refresh_stats", "dashboard")>>

\* the dashboard's two-second timer: refresh(recompose=True) composes the
\* dashboard again from the store; it runs between events, whichever
\* screen is visible
refresh_stats ==
    /\ UIEvent
    /\ view["dashboard"].mounted
    /\ StoreIdle
    /\ UNCHANGED <<stack, hpc>>
    /\ view' = [view EXCEPT !["dashboard"] = Drawn("dashboard", data)]
    /\ ran' = <<Ev("refresh_stats", "dashboard")>>

\* the clock's one-second timer: the next second is shown
update_clock ==
    /\ UIEvent
    /\ view["clock"].mounted
    /\ StoreIdle
    /\ UNCHANGED <<stack, hpc>>
    /\ view' = [view EXCEPT !["clock"] = ClockFace(1 - view["clock"].shows)]
    /\ ran' = <<Ev("update_clock", "clock")>>

\* the files the application is started on: none, or an earlier session's
SessionFiles == {NoFile, FilePrefix(SavedDoc, NChunks)}

InitUI ==
    /\ now = 0
    /\ disk \in SessionFiles
    /\ data = load(disk, 0)
    /\ pc = "idle"
    /\ op = "load"
    /\ key = ""
    /\ ret = "none"
    /\ val = -1
    /\ UIStart(data)

NextUI ==
    \/ \E id \in SwitchIds : action_switch_screen(id)
    \/ action_view_item
    \/ action_add_item
    \/ action_edit_item
    \/ action_delete_item
    \/ action_dismiss
    \/ \E text \in NameTexts : save_item(text)
    \/ delete_confirm
    \/ \E name \in ButtonStats, delta \in {-5, 5} : stats_button(name, delta)
    \/ settings_reset_stats
    \/ settings_reset_all
    \/ handler_return
    \/ WriteChunk /\ Quiet
    \/ WriteFail /\ Quiet

SpecUI == InitUI /\ [][NextUI]_vars

\* the application with its two timers running
NextTimers ==
    \/ NextUI
    \/ refresh_stats
    \/ update_clock

SpecTimers == InitUI /\ [][NextTimers]_vars

(* ------------- the item screens presented with a given name ------------ *)

\* names the item screens are constructed with: a starter item, which the
\* delete dialog can remove, and a name no item has
ItemKeys == {"Phone", "Ghost"}

\* ItemDetailScreen(name) is pushed
present_detail(name) ==
    /\ UIEvent
    /\ Top.id = "inventory"
    /\ StoreIdle
    /\ push_screen("detail", name)

\* ItemEditorModal(name) is pushed
present_editor(name) ==
    /\ UIEvent
    /\ Top.id = "inventory"
    /\ StoreIdle
    /\ push_screen("editor", name)

NextStale ==
    \/ \E id \in SwitchIds : action_switch_screen(id)
    \/ \E name \in ItemKeys : present_detail(name)
    \/ \E name \in ItemKeys : present_editor(name)
    \/ action_delete_item
    \/ action_dismiss
    \/ delete_confirm
    \/ handler_return
    \/ WriteChunk /\ Quiet
    \/ WriteFail /\ Quiet

SpecStale == InitUI /\ [][NextStale]_vars

(* ------------------------ vocabulary of the claims --------------------- *)

Mutators ==
    {"set_stat", "update_stat", "add_item", "update_item", "remove_item",
     "set_setting"}

\* this step is the start of a call on the store
CallStep == pc = "idle" /\ now' = now + 1 /\ op' # "load"

\* this step is the return of a call that went through save()
SaveReturnStep ==
    /\ pc = "writing" /\ pc' = "idle"
    /\ now' = now
    /\ ret' \in {"none", "true"}

\* the file holds a complete document equal to d, timestamp left aside
DocEq(file, d) ==
    /\ file.exists
    /\ Parses(file)
    /\ json_load(file).stats = d.stats
    /\ json_load(file).inventory = d.inventory
    /\ json_load(file).settings = d.settings

(* -------------------------------- C1 ----------------------------------- *)

\* C1: starting from the default document, after any sequence of set_stat,
\* update_stat, reset_stats and reset_all calls with integer values or
\* deltas of any magnitude and sign on any stat name, every value held in
\* stats is an integer in 0..100.
C1_StatsInRange ==
    \A n \in DOMAIN data.stats : data.stats[n] \in 0..100

\* update_stat("energy", -BigVal) on the seeded 80 has returned, leaving 0
C1_Witness ==
    /\ now = 1 /\ pc = "idle" /\ op = "update_stat" /\ key = "energy"
    /\ data.stats["energy"] = 0

(* -------------------------------- C2 ----------------------------------- *)

\* C2: every successful mutating call (set_stat, update_stat, add_item,
\* update_item returning true, remove_item returning true, set_setting)
\* made while auto_save is true has saved before it returns: at return the
\* file holds the in-memory document (timestamp excluded).
C2_SavedAtReturn ==
    [][ ( /\ \/ CallStep /\ op' \in Mutators /\ AutoSave(data)
             \/ SaveReturnStep /\ op \in Mutators
          /\ pc' = "idle"
          /\ ret' \in {"none", "true"} )
        => DocEq(disk', data') ]_vars

(* -------------------------------- C3 ----------------------------------- *)

\* C3: set_setting("auto_save", false) called while auto_save is true is
\* itself persisted: when it returns, a load of the file yields
\* auto_save = false.
C3_FlagChangePersisted ==
    [][ ( /\ \/ CallStep /\ AutoSave(data)
             \/ SaveReturnStep
          /\ op' = "set_setting" /\ key' = "auto_save"
          /\ ~AutoSave(data')
          /\ pc' = "idle" /\ ret' = "none" )
        => ~AutoSave(load(disk', now')) ]_vars

(* -------------------------------- C4 ----------------------------------- *)

\* C4: while auto_save is false, set_stat, update_stat, add_item,
\* update_item, remove_item and set_setting on a key other than auto_save
\* return without touching the file; an explicit save() that then returns
\* leaves the file equal to the in-memory document.
C4_DeferredUntilSave ==
    [][ /\ ( /\ CallStep
             /\ op' \in Mutators
             /\ ~AutoSave(data)
             /\ ~(op' = "set_setting" /\ key' = "auto_save") )
           => (disk' = disk /\ pc' = "idle" /\ ret' # "raised")
        /\ ( SaveReturnStep /\ op = "save" /\ ~AutoSave(data) )
           => DocEq(disk', data') ]_vars

\* with auto_save switched off, add_item("Map") has appended the fourth
\* entry in memory and no file has been written
C4_Witness ==
    /\ now = 2 /\ pc = "idle" /\ op = "add_item" /\ key = "Map" /\ ret = "none"
    /\ ~AutoSave(data)
    /\ Len(data.inventory) = 4
    /\ ~disk.exists

(* -------------------------------- C5 ----------------------------------- *)

\* C5: in every reachable state, after any sequence of add_item,
\* update_item, remove_item and reset_all from the default document, no two
\* inventory entries have names that are equal case-insensitively.
C5_NamesUniqueNoCase ==
    \A i, j \in 1..Len(data.inventory) :
        i # j => Lower(data.inventory[i].name) # Lower(data.inventory[j].name)

(* -------------------------------- C6 ----------------------------------- *)

\* C6: at every instant during and after save(), also when the process
\* stops or the write fails midway, the file holds a complete document (the
\* previously saved one or the new one), never an empty or partial one: a
\* file that holds a complete document holds one after every step.
C6_FileAlwaysComplete ==
    [][ (disk.exists /\ Parses(disk)) => (disk'.exists /\ Parses(disk')) ]_vars

(* -------------------------------- C7 ----------------------------------- *)

\* C7: a write failure in an explicit save() is reported to the caller,
\* while a write failure in the save a mutator triggers does not leave the
\* mutator as an exception: no mutator call ends by raising.
C7_MutatorsDoNotRaise ==
    (pc = "idle" /\ op \in Mutators) => ret # "raised"

(* -------------------------------- C8 ----------------------------------- *)

\* C8: add_item(name, ...) when an entry's name equals name
\* case-insensitively overwrites that entry's category, quantity and weight
\* in place, the length and every entry's position unchanged; when no entry
\* matches, exactly one new entry is appended and the earlier ones are
\* unchanged.
C8_AddOverwritesOrAppends ==
    [][ (CallStep /\ op' = "add_item") =>
        LET old == data.inventory
            new == data'.inventory
            hit == {i \in 1..Len(old) : Lower(old[i].name) = Lower(key')}
        IN  IF hit # {}
            THEN /\ Len(new) = Len(old)
                 /\ \A i \in 1..Len(old) : new[i].name = old[i].name
                 /\ \E i \in hit :
                       /\ new[i].category = NewFields.category
                       /\ new[i].quantity = NewFields.quantity
                       /\ new[i].weight = NewFields.weight
                       /\ \A j \in 1..Len(old) : j # i => new[j] = old[j]
            ELSE /\ Len(new) = Len(old) + 1
                 /\ \A i \in 1..Len(old) : new[i] = old[i]
                 /\ new[Len(new)] =
                       [name |-> key', category |-> NewFields.category,
                        quantity |-> NewFields.quantity,
                        weight |-> NewFields.weight] ]_vars

\* add_item("phone") on the default document has returned: still three
\* entries, the first still named "Phone" and now holding the new fields
C8_Witness ==
    /\ now = 1 /\ pc = "idle" /\ op = "add_item" /\ key = "phone" /\ ret = "none"
    /\ Len(data.inventory) = 3
    /\ data.inventory[1].name = "Phone"
    /\ data.inventory[1].category = "Gear"

(* -------------------------------- C9 ----------------------------------- *)

\* C9: update_item and remove_item with a name that matches no entry
\* exactly (case-sensitively) return false without raising, leave the
\* in-memory document unchanged and do not write to the file.
C9_MissIsNoOp ==
    [][ ( /\ CallStep
          /\ op' \in {"update_item", "remove_item"}
          /\ \A i \in 1..Len(data.inventory) : data.inventory[i].name # key' )
        => ( /\ ret' = "false"
             /\ pc' = "idle"
             /\ data' = data
             /\ disk' = disk ) ]_vars

\* remove_item("phone") on the default document, which holds "Phone", has
\* returned false with the three seeded entries still there
C9_Witness ==
    /\ now = 1 /\ pc = "idle" /\ op = "remove_item" /\ key = "phone"
    /\ ret = "false"
    /\ Len(data.inventory) = 3
    /\ data.inventory[1].name = "Phone"

(* -------------------------------- C10 ---------------------------------- *)

\* C10: reset_stats() from any reachable state sets stats to exactly
\* {hydration:75, energy:80, urination:30, stress:25}, leaves inventory and
\* settings unchanged, and saves even when auto_save is false: when it
\* returns the file equals the in-memory document.
C10_ResetStats ==
    [][ /\ (CallStep /\ op' = "reset_stats") =>
             /\ data'.stats =
                  [hydration |-> 75, energy |-> 80, urination |-> 30, stress |-> 25]
             /\ data'.inventory = data.inventory
             /\ data'.settings = data.settings
             /\ pc' = "writing" \/ ret' = "raised"
        /\ (SaveReturnStep /\ op = "reset_stats") =>
             /\ DocEq(disk', data')
             /\ data'.stats =
                  [hydration |-> 75, energy |-> 80, urination |-> 30, stress |-> 25] ]_vars

\* reset_stats() has returned with auto_save off: stats hold the seeded
\* values only and the file holds the in-memory document
C10_Witness ==
    /\ pc = "idle" /\ op = "reset_stats" /\ ret = "none"
    /\ ~AutoSave(data)
    /\ "mood" \notin DOMAIN data.stats
    /\ data.stats["energy"] = 80
    /\ DocEq(disk, data)

(* -------------------------------- C11 ---------------------------------- *)

\* C11: reset_all() from any reachable state replaces stats, inventory and
\* settings with the built-in defaults (Phone, Wallet, Keys in that order,
\* auto_save back to true) and saves even when auto_save was false: when it
\* returns, memory and file both hold the default document.
C11_ResetAll ==
    [][ /\ (CallStep /\ op' = "reset_all") =>
             /\ data'.stats = DefaultStats
             /\ data'.inventory = DefaultInventory
             /\ data'.settings = DefaultSettings
             /\ pc' = "writing" \/ ret' = "raised"
        /\ (SaveReturnStep /\ op = "reset_all") =>
             /\ data'.stats = DefaultStats
             /\ <<data'.inventory[1].name, data'.inventory[2].name,
                  data'.inventory[3].name>> = <<"Phone", "Wallet", "Keys">>
             /\ Len(data'.inventory) = 3
             /\ data'.settings["auto_save"] = TRUE
             /\ DocEq(disk', default_data(now'))
             /\ DocEq(disk', data') ]_vars

\* reset_all() has returned as the fourth call: memory and file hold the
\* default document
C11_Witness ==
    /\ now = 4 /\ pc = "idle" /\ op = "reset_all" /\ ret = "none"
    /\ data.inventory = DefaultInventory
    /\ AutoSave(data)
    /\ DocEq(disk, data)

(* -------------------------------- C12 ---------------------------------- *)

C14_UpdateIsSetOfSum ==
    [][ (CallStep /\ op' = "update_stat") =>
        \A n \in {key'}, d \in StatDeltas :
          update_stat(n, d) =>
            LET cur == IF n \in DOMAIN data.stats THEN data.stats[n] ELSE 0
                sum == cur + d
                new == IF sum < 0 THEN 0 ELSE IF sum > 100 THEN 100 ELSE sum
            IN  /\ DOMAIN data'.stats = DOMAIN data.stats \cup {n}
                /\ data'.stats[n] = new
                /\ \A m \in DOMAIN data.stats : m # n => data'.stats[m] = data.stats[m]
                /\ data'.inventory = data.inventory
                /\ data'.settings = data.settings
                /\ (pc' = "idle" /\ ret' = "none") => ~AutoSave(data) /\ disk' = disk
                /\ (cur = 0 /\ d < 0) => data'.stats[n] = 0
                /\ (cur = 100 /\ d > 0) => data'.stats[n] = 100 ]_vars

\* the first call, update_stat on the unknown stat "mood" (read as 0), has
\* returned and left it at 0: the delta was negative
C14_Witness ==
    /\ now = 1 /\ pc = "idle" /\ op = "update_stat" /\ key = "mood"
    /\ ret = "none"
    /\ data.stats["mood"] = 0

(* C15: get_stat(name) for a name the document does not hold returns 0,    *)
(* does not raise, and neither creates the key nor touches the document or *)
(* the file: it is a read.  For a name the document holds it returns the   *)
(* stored value, equally without a write.                                  *)
C15_GetStatIsRead ==
    [][ (CallStep /\ op' = "get_stat") =>
          /\ ret' = "value"
          /\ pc' = "idle"
          /\ data' = data
          /\ disk' = disk
          /\ key' \notin DOMAIN data.stats => val' = 0
          /\ key' \in DOMAIN data.stats => val' = data.stats[key'] ]_vars

\* get_stat("mood") has just returned 0 and "mood" is still not a stat
C15_Witness ==
    /\ op = "get_stat"
    /\ key = "mood"
    /\ ret = "value"
    /\ val = 0
    /\ "mood" \notin DOMAIN data.stats
    /\ "energy" \in DOMAIN data.stats

\* the file is absent, or json.load cannot read a document from it
Unreadable(file) == ~file.exists \/ ~file.utf8 \/ ~Parses(file)

(* C13: a load that finds no file, or a file that does not parse (cut      *)
(* short, empty, or corrupt), does not raise: the store comes up idle with *)
(* the default stats, the three starter items and the default settings,    *)
(* and the load leaves the file as it found it.                            *)
C13_LoadFallsBack ==
    [][ (op' = "load" /\ now' = now + 1 /\ Unreadable(disk)) =>
          /\ ret' = "none"
          /\ pc' = "idle"
          /\ data'.stats = DefaultStats
          /\ data'.inventory = DefaultInventory
          /\ Len(data'.inventory) = 3
          /\ data'.settings = DefaultSettings
          /\ disk' = disk ]_vars

\* the same for the files that hold text: absent, empty or cut short
C13_TextFilesFallBack ==
    [][ (op' = "load" /\ now' = now + 1 /\ Unreadable(disk) /\ disk.utf8) =>
          /\ ret' = "none"
          /\ pc' = "idle"
          /\ data'.stats = DefaultStats
          /\ data'.inventory = DefaultInventory
          /\ data'.settings = DefaultSettings
          /\ disk' = disk ]_vars

(* ------------------------ claims on the application -------------------- *)

\* how often e occurs in seq
CountOf(seq, e) == Cardinality({i \in 1..Len(seq) : seq[i] = e})

\* the screen that is visible after the step
TopAfter == stack'[Len(stack')]

(* C16: the stack starts as [dashboard].  The editor is pushed on top of   *)
(* a top-level screen and nothing under it changes; while it is on top the *)
(* stack changes only by its dismissal, which Cancel and a save whose      *)
(* store call returned both perform, and which leaves the stack as it was  *)
(* before the push, shows that top-level screen, and runs its              *)
(* on_screen_resume exactly once.                                          *)
C16_EditorRoundTrip ==
    /\ stack = <<Entry("dashboard", "")>>
    /\ [][ /\ (Len(stack') > Len(stack) /\ TopAfter.id = "editor") =>
               (Front(stack') = stack /\ Top.id \in TopLevel)
           /\ (Len(stack) > 0 /\ Top.id = "editor" /\ stack' # stack) =>
               /\ stack' = Front(stack)
               /\ TopAfter.id \in TopLevel
               /\ hpc' = "none"
               /\ CountOf(ran', Ev("on_screen_resume", TopAfter.id)) = 1
               /\ CountOf(ran', Ev("ScreenResume", TopAfter.id)) = 1
           /\ (Len(stack) > 0 /\ Top.id = "editor" /\ action_dismiss) =>
               stack' = Front(stack)
           /\ (Len(stack) > 0 /\ Top.id = "editor" /\ hpc = "_save_item"
                 /\ pc = "idle" /\ ret # "raised" /\ hpc' # hpc) =>
               stack' = Front(stack) ]_vars

\* the editor was pushed on [inventory], its save added an item, and its
\* dismissal has just put [inventory] back and resumed the screen once
C16_Witness ==
    /\ stack = <<Entry("inventory", "")>>
    /\ op = "add_item"
    /\ hpc = "none"
    /\ Len(ran) > 0
    /\ ran[1] = Ev("dismiss", "editor")
    /\ CountOf(ran, Ev("on_screen_resume", "inventory")) = 1

(* C17: action_switch_screen with an id that is none of dashboard, stats,  *)
(* inventory, settings changes neither the stack nor what is shown, and    *)
(* delivers no ScreenResume.  With one of the four the stack keeps its     *)
(* depth and everything under the top, and the top is that screen.         *)
C17_SwitchKnownOrNoOp ==
    [][ \A id \in SwitchIds : action_switch_screen(id) =>
          /\ id \notin {"dashboard", "stats", "inventory", "settings"} =>
               /\ stack' = stack
               /\ view' = view
               /\ \A i \in 1..Len(ran') : ran'[i].what # "ScreenResume"
          /\ id \in {"dashboard", "stats", "inventory", "settings"} =>
               /\ Len(stack') = Len(stack)
               /\ Front(stack') = Front(stack)
               /\ TopAfter = Entry(id, "") ]_vars

\* a switch put stats on top, and a switch to "help" has just done nothing
C17_Witness ==
    /\ stack = <<Entry("stats", "")>>
    /\ ran = <<Ev("action_switch_screen", "help")>>

(* C18: when a step makes one of the four named screens the visible top    *)
(* of the stack, what that screen shows afterwards is what the store       *)
(* holds.                                                                  *)
C18_ResumedScreenIsFresh ==
    [][ (stack' # stack /\ hpc' # "crashed" /\ Len(stack') > 0
           /\ TopAfter.id \in TopLevel) =>
          view'[TopAfter.id] = Drawn(TopAfter.id, data') ]_vars

\* the same for the three screens that define on_screen_resume
C18_HookedScreensFresh ==
    [][ (stack' # stack /\ hpc' # "crashed" /\ Len(stack') > 0
           /\ TopAfter.id \in {"dashboard", "stats", "inventory"}) =>
          view'[TopAfter.id] = Drawn(TopAfter.id, data') ]_vars

(* C19: presenting the detail screen or the editor with a name that no     *)
(* inventory entry has does not stop the app: the screen is on top and     *)
(* shows placeholder or empty fields.                                      *)
C19_MissingItemPresented ==
    [][ \A name \in ItemKeys :
          ((present_detail(name) \/ present_editor(name))
             /\ get_item(data, name) = <<>>) =>
            /\ hpc' # "crashed"
            /\ view'["top"].mounted
            /\ view'["top"].shows \in {Placeholder, EmptyForm} ]_vars

\* the same for the detail screen alone
C19_DetailFallsBack ==
    [][ \A name \in ItemKeys :
          (present_detail(name) /\ get_item(data, name) = <<>>) =>
            /\ hpc' # "crashed"
            /\ TopAfter = Entry("detail", name)
            /\ view'["top"].mounted
            /\ view'["top"].shows = Placeholder ]_vars

\* the texts that are empty once stripped
BlankTexts == {"", "  "}

(* C20: Save in the editor with a name that is empty after stripping does  *)
(* nothing: no store call starts, the document and the file are as         *)
(* before, and the stack, with the editor on top, is as before.            *)
C20_EmptyNameIsNoOp ==
    [][ \A text \in BlankTexts : save_item(text) =>
          /\ UNCHANGED <<data, disk, pc, op, key, ret, now>>
          /\ UNCHANGED <<stack, view, hpc>>
          /\ TopAfter.id = "editor"
          /\ hpc' = "none" ]_vars

\* Save has just been pressed on a name of two spaces, the editor is still
\* on top and the store has not been called since it was loaded
C20_Witness ==
    /\ ran = <<Ev("_save_item", "  ")>>
    /\ Len(stack) = 2
    /\ Top.id = "editor"
    /\ op = "load"
    /\ hpc = "none"

(* C23: right after a load the stats the store holds are all in 0..100,    *)
(* also when the file that was loaded parses and holds a stat outside that *)
(* range, and get_stat returns only values in 0..100.                      *)
C23_LoadedStatsInRange ==
    /\ (op = "load" /\ pc = "idle") =>
         \A n \in DOMAIN data.stats : data.stats[n] \in 0..100
    /\ (op = "get_stat" /\ ret = "value") => val \in 0..100

\* the same for the loads that do not read a whole document from the file
C23_DefaultsInRange ==
    (op = "load" /\ pc = "idle" /\ Unreadable(disk)) =>
      \A n \in DOMAIN data.stats : data.stats[n] \in 0..100

\* the positions of inv whose name is exactly name
ExactAt(inv, name) == {i \in 1..Len(inv) : inv[i].name = name}

\* the positions of inv whose name is name up to letter case
NoCaseAt(inv, name) == {i \in 1..Len(inv) : Lower(inv[i].name) = Lower(name)}

\* the least position of a non-empty set of positions
FirstOf(S) == CHOOSE i \in S : \A j \in S : i <= j

(* C24: update_item and remove_item that find an entry with exactly the    *)
(* given name act on the first such entry only.  update_item leaves the    *)
(* list as long as it was, puts the new name, category, quantity and       *)
(* weight at that position and keeps every other position; remove_item     *)
(* takes that position out and keeps the entries before and after it in    *)
(* their order.  Stats and settings are untouched.                         *)
C24_FirstExactEntryOnly ==
    [][ /\ (CallStep /\ op' = "update_item"
             /\ ExactAt(data.inventory, key') # {}) =>
            LET inv == data.inventory
                i == FirstOf(ExactAt(inv, key'))
            IN  /\ Len(data'.inventory) = Len(inv)
                /\ \A k \in 1..Len(inv) : k # i => data'.inventory[k] = inv[k]
                /\ data'.inventory[i].category = NewFields.category
                /\ data'.inventory[i].quantity = NewFields.quantity
                /\ data'.inventory[i].weight = NewFields.weight
                /\ \A name \in RenameNames :
                     update_item(key', name, NewFields) =>
                       data'.inventory[i].name = name
                /\ data'.stats = data.stats
                /\ data'.settings = data.settings
        /\ (CallStep /\ op' = "remove_item"
             /\ ExactAt(data.inventory, key') # {}) =>
            LET inv == data.inventory
                i == FirstOf(ExactAt(inv, key'))
            IN  /\ Len(data'.inventory) = Len(inv) - 1
                /\ \A k \in 1..(i - 1) : data'.inventory[k] = inv[k]
                /\ \A k \in i..(Len(inv) - 1) : data'.inventory[k] = inv[k + 1]
                /\ data'.stats = data.stats
                /\ data'.settings = data.settings ]_vars

\* two entries were named Phone; update_item("Phone", "Purse", ...) has
\* returned true and renamed the first, the second is still Phone
C24_Witness ==
    /\ pc = "idle"
    /\ op = "update_item"
    /\ key = "Phone"
    /\ ret = "true"
    /\ Len(data.inventory) = 3
    /\ data.inventory[1].name = "Purse"
    /\ data.inventory[2].name = "Phone"

(* C25: add_item with a name that matches an entry up to letter case, in   *)
(* another spelling, keeps that entry's name and changes its category,     *)
(* quantity and weight only; afterwards get_item with the new spelling     *)
(* returns nothing.                                                        *)
C25_SpellingKept ==
    [][ (CallStep /\ op' = "add_item"
          /\ NoCaseAt(data.inventory, key') # {}
          /\ data.inventory[FirstOf(NoCaseAt(data.inventory, key'))].name # key') =>
          LET inv == data.inventory
              i == FirstOf(NoCaseAt(inv, key'))
          IN  /\ Len(data'.inventory) = Len(inv)
              /\ data'.inventory[i] =
                   Item(inv[i].name, NewFields.category, NewFields.quantity,
                        NewFields.weight)
              /\ \A k \in 1..Len(inv) : k # i => data'.inventory[k] = inv[k]
              /\ get_item(data', key') = <<>> ]_vars

\* the same without the lookup: the entry keeps its spelling
C25_EntryKeepsName ==
    [][ (CallStep /\ op' = "add_item"
          /\ NoCaseAt(data.inventory, key') # {}
          /\ data.inventory[FirstOf(NoCaseAt(data.inventory, key'))].name # key') =>
          LET inv == data.inventory
              i == FirstOf(NoCaseAt(inv, key'))
          IN  /\ Len(data'.inventory) = Len(inv)
              /\ data'.inventory[i] =
                   Item(inv[i].name, NewFields.category, NewFields.quantity,
                        NewFields.weight)
              /\ \A k \in 1..Len(inv) : k # i => data'.inventory[k] = inv[k] ]_vars

\* the same with the lookup, while no two names are equal up to case (C5)
C25_NothingFoundWhileUnique ==
    [][ (CallStep /\ op' = "add_item"
          /\ Cardinality(NoCaseAt(data.inventory, key')) = 1
          /\ data.inventory[FirstOf(NoCaseAt(data.inventory, key'))].name # key') =>
          get_item(data', key') = <<>> ]_vars

\* the step ran a timer callback
TimerStep ==
    /\ Len(ran') = 1
    /\ ran'[1].what \in {"refresh_stats", "update_clock"}
    /\ (ran' # ran \/ view' # view)

(* C21: a step of the clock's timer or of the dashboard's refresh timer,   *)
(* wherever it falls among the user's actions, leaves the document in      *)
(* memory and the file as they are and calls no store method that writes.  *)
C21_TimersOnlyRead ==
    [][ TimerStep =>
          /\ data' = data
          /\ disk' = disk
          /\ pc' = pc
          /\ op' = op
          /\ now' = now ]_vars

\* a stats button changed the store, and since then both timers have run:
\* the clock shows the next second, the dashboard refresh ran last
C21_Witness ==
    /\ ran = <<Ev("refresh_stats", "dashboard")>>
    /\ view["clock"].shows = 1
    /\ op = "update_stat"
    /\ hpc = "none"
    /\ view["dashboard"] = Drawn("dashboard", data)
    /\ disk.exists

\* Back or Escape is pressed on the item-detail screen
DetailBack ==
    /\ Len(stack) > 0
    /\ Top.id = "detail"
    /\ action_switch_screen("inventory")

(* C22: the detail screen is pushed on top of the stack as it is, and Back *)
(* or Escape on it leaves the stack as it was before that push, so that a  *)
(* view-item/back cycle ends at the depth it started from.                 *)
C22_DetailBackRestores ==
    [][ /\ (Len(stack') > Len(stack) /\ TopAfter.id = "detail") =>
             Front(stack') = stack
        /\ DetailBack =>
             /\ stack' = Front(stack)
             /\ Len(stack') = Len(stack) - 1 ]_vars

\* what Back does do: the detail screen leaves the stack, the inventory
\* screen takes its place on top and is redrawn, everything under it stays
C22_DetailReplaced ==
    [][ DetailBack =>
          /\ TopAfter = Entry("inventory", "")
          /\ Front(stack') = Front(stack)
          /\ \A i \in 1..Len(stack') : stack'[i].id # "detail"
          /\ view'["inventory"] = Drawn("inventory", data') ]_vars

====
